---- MODULE Spec2Model ----
(***************************************************************************)
(* Upload-and-poll analysis workflow of the VentureVal front end:          *)
(* HomePage (weights, upload slots, handleUpload, pollAnalysisStatus),     *)
(* WeightsSection, FileUpload, UploadButton, the axios response            *)
(* interceptor, the hand-over to Dashboard and ProgressTracker.            *)
(*                                                                         *)
(* Requests to the backend and the PUT to the signed URL are answered by   *)
(* the environment: every response action draws its outcome from the       *)
(* outcomes the HTTP wrapper can deliver (2xx body, error body, rejection).*)
(***************************************************************************)
EXTENDS Integers, Sequences, FiniteSets, TLC

\* ------------------------------------------------------------------ bounds
MaxEditsDuringRun == 1  \* form edits made while a run of handleUpload is pending
MaxPick == 2            \* files offered by one browse / drop event
MaxTargets == 2         \* status responses delivered to one mounted ProgressTracker
Scale == 100            \* resolution of the displayed progress (1/Scale of a percent)
DisplayGrain == 4       \* displayed values written per percent when every value is rendered
MaxTrail == 3           \* preset selections in a row that are remembered
MaxLogins == 2          \* clicks on Sign In that pass validation
MaxClientCalls == 2     \* calls through the API clients that are logged

\* ------------------------------------------------------- program constants
maxFiles == 1
interval == 5           \* poll interval, in units of 1000 ms
LongDuration == 10      \* animation duration for a target below 100 (x 1000 ms)
ShortDuration == 2      \* animation duration for the target 100 (x 1000 ms)
InitialTarget == 5      \* adjustedApiProgress when apiProgress is 0

Undefined == "undefined"
UndefinedProgress == 0 - 1   \* resp.progress of a body that has no progress field
Null == "null"
Custom == "Default (Custom)"

Slots == <<"pitch_deck", "call_transcript", "founder_update", "email_communication">>
SlotKeys == {Slots[i] : i \in 1..Len(Slots)}

Factors == {"Growth", "Market", "Team", "Product", "Financials", "Competition"}

PRESETS ==
  [p \in {Custom, "Early-Stage VC", "Growth Equity", "Angel Investor", "Strategic Investor"} |->
     CASE p = Custom ->
            [Growth |-> 25, Market |-> 20, Team |-> 20, Product |-> 15,
             Financials |-> 10, Competition |-> 10]
       [] p = "Early-Stage VC" ->
            [Growth |-> 10, Market |-> 30, Team |-> 35, Product |-> 20,
             Financials |-> 3, Competition |-> 2]
       [] p = "Growth Equity" ->
            [Growth |-> 40, Market |-> 15, Team |-> 8, Product |-> 2,
             Financials |-> 25, Competition |-> 10]
       [] p = "Angel Investor" ->
            [Growth |-> 15, Market |-> 20, Team |-> 30, Product |-> 25,
             Financials |-> 5, Competition |-> 5]
       [] p = "Strategic Investor" ->
            [Growth |-> 10, Market |-> 20, Team |-> 7, Product |-> 35,
             Financials |-> 3, Competition |-> 25]]

PresetNames == DOMAIN PRESETS

\* ------------------------------------------------------------ input samples
FileList == <<"a.pdf", "b.pdf", "c.pdf">>   \* what one browse / drop event can offer
SlotSample == {"pitch_deck", "call_transcript", "founder_update"}   \* slots the user fills
SliderFactors == {"Financials"}
SliderValues == {9, 10, 11}
PresetSample == {Custom, "Early-Stage VC", "Growth Equity"}
ProgressValues == {0, 40, 100}
TrackerValues == {0, 5, 40, 100}   \* progress values polled while ProgressTracker is watched
Payloads == {"resultA", "resultB"}
JobId == "job-1"

\* the file lists a browse / drop event delivers: nothing, one file, several
Picks == {SubSeq(FileList, 1, n) : n \in 0..MaxPick}

VARIABLES
  route,          \* "home" | "dashboard"
  locationState,  \* state handed over with the navigation
  weights, preset, apiProgress, selectedFiles, showAnalyzing, uploading,
  alertOpen,      \* handleUpload is blocked inside alert()
  edits,          \* form edits since the pending run was started
  huPc,           \* position of handleUpload
  run,            \* values captured by the closure of the running handleUpload
  slotPc,         \* position of each per-slot async callback
  slotResp,       \* presign response of each slot
  results,        \* resolved value of each per-slot promise
  presigns, puts, \* requests issued by the run, per slot
  putStatus,      \* how the PUT of each slot settled
  startStatus,    \* how the startAnalysis request settled
  pollRejected,   \* a status request rejected
  startReq,       \* <<body>> of the startAnalysis request, <<>> before it is sent
  startCalls,     \* startAnalysis requests issued
  pollPc,         \* position of pollAnalysisStatus
  pollArg,        \* analysis_id given to pollAnalysisStatus
  lastResp,       \* last status response delivered to the poll loop
  finalAnalysis,  \* return value of pollAnalysisStatus
  navCount,       \* navigate("/dashboard") calls
  failed,         \* a request of the run rejected or came back as an error body
  progress,       \* ProgressTracker: displayed progress, in hundredths
  target,         \* ProgressTracker: apiProgress prop of the last effect run
  loops,          \* ProgressTracker: scheduled animate loops, oldest first
  targets,        \* ProgressTracker: effect runs so far
  sleepLeft,      \* ProgressTracker: time left of the poll interval of its parent
  onCompleteCount,\* onComplete calls
  presetTrail,    \* presets applied in a row since the last other action on the form,
                  \* recorded until a run of handleUpload is started
  pollsInFlight,  \* getAnalysisData requests not yet answered
  form, errors,   \* LoginPage: the two fields and their validation messages
  loginInFlight,  \* LoginPage: loginUser requests not yet settled
  loginCalls,     \* LoginPage: loginUser requests issued
  localStorage,   \* value stored under venture_auth_token
  toasts,         \* messages given to toast.error, oldest first
  loginNavs,      \* navigate("/") calls of handleLogin
  loginResp,      \* last settled loginUser request
  emptiedBy,      \* the FileUpload operation ("handleFiles", "removeFile") by which the
                  \* last step left a filled slot empty, "none" if it emptied no slot;
                  \* "unobserved" in the behaviours that do not follow the slots
  clientCall,     \* API clients: the service function whose request is in flight
  clientLog       \* API clients: the HTTP response and the settlement of each call

homeVars == <<weights, preset, apiProgress, selectedFiles, showAnalyzing, uploading>>
formVars == <<weights, preset, selectedFiles>>
runVars == <<huPc, run, slotPc, slotResp, results, presigns, puts, putStatus, startReq,
            startCalls, startStatus>>
pollVars == <<pollPc, pollArg, lastResp, finalAnalysis, pollRejected, pollsInFlight>>
navVars == <<route, locationState, navCount>>
trackerVars == <<progress, target, loops, targets, sleepLeft, onCompleteCount>>
loginVars == <<form, errors, loginInFlight, loginCalls, localStorage, toasts, loginNavs,
              loginResp>>
clientVars == <<clientCall, clientLog>>
vars == <<homeVars, alertOpen, edits, runVars, pollVars, navVars, failed, trackerVars,
         presetTrail, loginVars, emptiedBy, clientVars>>

\* ------------------------------------------------------------------ helpers
Factor6 == <<"Growth", "Market", "Team", "Product", "Financials", "Competition">>

RECURSIVE SumOver(_, _)
SumOver(w, i) == IF i = 0 THEN 0 ELSE w[Factor6[i]] + SumOver(w, i - 1)

\* Object.values(weights).reduce((a, b) => a + b, 0)
total(w) == SumOver(w, Len(Factor6))

SliceMax_all(q) == q

\* Array.from(newFiles).slice(0, maxFiles)
SliceMax(q) == IF Len(q) <= maxFiles THEN q ELSE SubSeq(q, 1, maxFiles)

\* files.filter((_, i) => i !== index)
RECURSIVE FilterOut(_, _, _)
FilterOut(q, index, i) ==
  IF i > Len(q) THEN <<>>
  ELSE (IF i - 1 = index THEN <<>> ELSE <<q[i]>>) \o FilterOut(q, index, i + 1)

\* Object.values(selectedFiles).every((files) => files.length === 0)
AllEmpty(sf) == \A s \in SlotKeys : Len(sf[s]) = 0

isDisabled_and == uploading /\ AllEmpty(selectedFiles)

isDisabled == uploading \/ AllEmpty(selectedFiles)

adjustedApiProgress_raw == apiProgress

\* const adjustedApiProgress = apiProgress === 0 ? 5 : apiProgress
adjustedApiProgress == IF apiProgress = 0 THEN InitialTarget ELSE apiProgress

\* val / 100, kept as the fraction it denotes
Normalize_percent(val) == [num |-> val, den |-> 1]

Normalize(val) == [num |-> val, den |-> 100]

normalizedWeights(w) == [f \in Factors |-> Normalize(w[f])]

\* results.filter(Boolean), in the order of Object.entries(selectedFiles)
RECURSIVE FilterBoolean(_, _)
FilterBoolean(res, i) ==
  IF i > Len(Slots) THEN <<>>
  ELSE (IF res[Slots[i]] \in {Null, Undefined} THEN <<>> ELSE <<res[Slots[i]]>>)
       \o FilterBoolean(res, i + 1)

\* the descriptor the backend answers to generate-upload-url for a slot
PresignBody(s) == [signed_url |-> "https://signed/" \o s, storage_path |-> "uploads/" \o s]

\* a non-2xx body resolved by the response interceptor: no descriptor fields
ErrorBody == [signed_url |-> Undefined, storage_path |-> Undefined]

NoResp == [progress |-> UndefinedProgress, payload |-> Undefined]

EmptyFiles == [s \in SlotKeys |-> <<>>]

\* no loginUser request has settled yet
NoLogin == [settled |-> "none", success |-> FALSE, message |-> Undefined, token |-> Undefined]

\* ---------------------------------------------------------------- initial state
\* component state and bookkeeping before anything has happened
InitState ==
  /\ locationState = <<>>
  /\ weights = PRESETS[Custom]
  /\ preset = Custom
  /\ apiProgress = 0
  /\ selectedFiles = EmptyFiles
  /\ showAnalyzing = FALSE
  /\ uploading = FALSE
  /\ alertOpen = FALSE
  /\ edits = 0
  /\ huPc = "idle"
  /\ run = [weights |-> PRESETS[Custom], preset |-> Custom, selectedFiles |-> EmptyFiles]
  /\ slotPc = [s \in SlotKeys |-> "none"]
  /\ slotResp = [s \in SlotKeys |-> ErrorBody]
  /\ results = [s \in SlotKeys |-> Null]
  /\ presigns = [s \in SlotKeys |-> 0]
  /\ puts = [s \in SlotKeys |-> 0]
  /\ putStatus = [s \in SlotKeys |-> "none"]
  /\ startStatus = "none"
  /\ pollRejected = FALSE
  /\ startReq = <<>>
  /\ startCalls = 0
  /\ pollPc = "none"
  /\ pollArg = Undefined
  /\ lastResp = NoResp
  /\ finalAnalysis = NoResp
  /\ navCount = 0
  /\ failed = FALSE
  /\ progress = 0
  /\ target = UndefinedProgress
  /\ loops = <<>>
  /\ targets = 0
  /\ sleepLeft = 0
  /\ onCompleteCount = 0
  /\ presetTrail = <<>>
  /\ pollsInFlight = 0
  /\ form = [email |-> "", password |-> ""]
  /\ errors = [email |-> "", password |-> ""]
  /\ loginInFlight = 0
  /\ loginCalls = 0
  /\ localStorage = Null
  /\ toasts = <<>>
  /\ loginNavs = 0
  /\ loginResp = NoLogin
  /\ clientCall = "none"
  /\ clientLog = <<>>

\* the application opened on the home route
Init == route = "home" /\ emptiedBy = "unobserved" /\ InitState

\* the same page, with the operations that empty a slot followed
InitSlots == route = "home" /\ emptiedBy = "none" /\ InitState

\* ------------------------------------------------------------ the home form
\* the form is rendered while HomePage is mounted and showAnalyzing is false
\* what a step records about the slot it emptied
Observed(op) == IF emptiedBy = "unobserved" THEN "unobserved" ELSE op

FormShown_always == route = "home" /\ ~alertOpen

\* the form with the submit button is rendered unless the analyzing screen
\* replaces it; alert() blocks the page while it is open
FormShown == route = "home" /\ ~showAnalyzing /\ ~alertOpen

EditAllowed == FormShown /\ (huPc = "idle" \/ edits < MaxEditsDuringRun)

CountEdit == edits' = IF huPc = "idle" THEN edits ELSE edits + 1

handleFileChange(key, files) ==
  selectedFiles' = [selectedFiles EXCEPT ![key] = files]

\* FileUpload.handleBrowse / handleDrop -> handleFiles -> onFileChange
handleFiles(key, newFiles) ==
  /\ EditAllowed
  /\ handleFileChange(key, SliceMax(newFiles))
  /\ CountEdit
  /\ presetTrail' = <<>>
  /\ emptiedBy' = Observed(IF selectedFiles[key] # <<>> /\ SliceMax(newFiles) = <<>>
                           THEN "handleFiles" ELSE "none")
  /\ UNCHANGED <<weights, preset, apiProgress, showAnalyzing, uploading, alertOpen,
                 runVars, pollVars, navVars, failed, trackerVars, loginVars, clientVars>>

\* FileUpload.removeFile, offered for every listed file
removeFile(key, index) ==
  /\ EditAllowed
  /\ index \in 0..(Len(selectedFiles[key]) - 1)
  /\ handleFileChange(key, FilterOut(selectedFiles[key], index, 1))
  /\ CountEdit
  /\ presetTrail' = <<>>
  /\ emptiedBy' = Observed(IF selectedFiles[key] # <<>>
                              /\ FilterOut(selectedFiles[key], index, 1) = <<>>
                           THEN "removeFile" ELSE "none")
  /\ UNCHANGED <<weights, preset, apiProgress, showAnalyzing, uploading, alertOpen,
                 runVars, pollVars, navVars, failed, trackerVars, loginVars, clientVars>>

sliderEnabled_always == TRUE

\* <Slider disabled={preset !== "Default (Custom)"} />
sliderEnabled == preset = Custom

\* WeightsSection.handleChange, reachable through an enabled Slider only
handleChange(factor, value) ==
  /\ EditAllowed
  /\ sliderEnabled
  /\ weights' = [weights EXCEPT ![factor] = value]
  /\ CountEdit
  /\ presetTrail' = <<>>
  /\ emptiedBy' = Observed("none")
  /\ UNCHANGED <<preset, apiProgress, selectedFiles, showAnalyzing, uploading, alertOpen,
                 runVars, pollVars, navVars, failed, trackerVars, loginVars, clientVars>>

\* the last MaxTrail entries of a trail
LastOf(q) == IF Len(q) <= MaxTrail THEN q ELSE SubSeq(q, Len(q) - MaxTrail + 1, Len(q))

presetWeights_keepCustom(prev, presetName) ==
  IF presetName = Custom THEN prev ELSE PRESETS[presetName]

\* setWeights(PRESETS[presetName]): the table entry replaces the previous weights
presetWeights(prev, presetName) == PRESETS[presetName]

applyPreset(presetName) ==
  /\ EditAllowed
  /\ preset' = presetName
  /\ weights' = presetWeights(weights, presetName)
  /\ CountEdit
  /\ presetTrail' = IF huPc = "idle" THEN LastOf(Append(presetTrail, presetName)) ELSE <<>>
  /\ emptiedBy' = Observed("none")
  /\ UNCHANGED <<apiProgress, selectedFiles, showAnalyzing, uploading, alertOpen,
                 runVars, pollVars, navVars, failed, trackerVars, loginVars, clientVars>>

\* values a Slider can deliver (min 0, max 100, step 1): the ends and a middle
SliderRange == {0, 50, 100}

\* the weights section alone: every slider and every entry of the preset menu
WeightsNext ==
  \/ \E factor \in Factors, value \in SliderRange : handleChange(factor, value)
  \/ \E presetName \in PresetNames : applyPreset(presetName)

SpecWeights == Init /\ [][WeightsNext]_vars

\* ------------------------------------------------------------- handleUpload
\* the request handed to startAnalysis once every per-slot promise resolved
StartBody(res) ==
  [storage_paths |-> FilterBoolean(res, 1),
   weighting_config |-> [profile_name |-> run.preset,
                         weights |-> normalizedWeights(run.weights)]]

AllResolved_some(pc) == \E s \in SlotKeys : pc[s] = "resolved"

\* Promise.all resolves when every per-slot promise has resolved
AllResolved(pc) == \A s \in SlotKeys : pc[s] = "resolved"

JoinUploads_keepUploading(res) ==
  /\ uploading' = uploading
  /\ showAnalyzing' = TRUE
  /\ startReq' = <<StartBody(res)>>
  /\ startCalls' = startCalls + 1
  /\ huPc' = "awaitStart"

\* the continuation of handleUpload behind `await Promise.all(uploadPromises)`:
\* it runs in the microtask that follows the last per-slot promise
JoinUploads(res) ==
  /\ uploading' = FALSE
  /\ showAnalyzing' = TRUE
  /\ startReq' = <<StartBody(res)>>
  /\ startCalls' = startCalls + 1
  /\ huPc' = "awaitStart"

\* what a settled slot means for the awaiting handleUpload
SettleSlot(pc, res) ==
  IF huPc = "awaitUploads" /\ AllResolved(pc)
  THEN JoinUploads(res)
  ELSE /\ huPc' = (IF huPc = "awaitUploads" /\ \E s \in SlotKeys : pc[s] = "rejected"
                   THEN "rejected" ELSE huPc)
       /\ UNCHANGED <<uploading, showAnalyzing, startReq, startCalls>>

weightsRejected_above(w) == total(w) > 100

\* if (total !== 100) { alert(...); return; }
weightsRejected(w) == total(w) # 100

abortWithAlert_afterSetUploading ==
  /\ alertOpen' = TRUE
  /\ uploading' = TRUE
  /\ UNCHANGED <<weights, preset, apiProgress, selectedFiles, showAnalyzing, edits, runVars,
                 pollVars, navVars, failed, trackerVars, loginVars, clientVars>>

\* alert("Total weights must equal 100%"); return;  -- nothing was set before
abortWithAlert ==
  /\ alertOpen' = TRUE
  /\ UNCHANGED <<homeVars, edits, runVars, pollVars, navVars, failed, trackerVars, loginVars,
                 clientVars>>

\* click on UploadButton; the button is rendered with the form and
\* disabled={isDisabled}
handleUpload ==
  /\ FormShown
  /\ ~isDisabled
  /\ presetTrail' = <<>>
  /\ emptiedBy' = Observed("none")
  /\ IF weightsRejected(weights)
     THEN abortWithAlert
     ELSE /\ uploading' = TRUE
          /\ run' = [weights |-> weights, preset |-> preset, selectedFiles |-> selectedFiles]
          /\ slotPc' = [s \in SlotKeys |->
                          IF Len(selectedFiles[s]) = 0 THEN "resolved" ELSE "presign"]
          /\ presigns' = [s \in SlotKeys |->
                            IF Len(selectedFiles[s]) = 0 THEN presigns[s] ELSE presigns[s] + 1]
          /\ results' = [s \in SlotKeys |-> Null]
          /\ huPc' = "awaitUploads"
          /\ edits' = 0
          /\ UNCHANGED <<weights, preset, apiProgress, selectedFiles, showAnalyzing,
                         alertOpen, slotResp, puts, putStatus, startReq, startCalls,
                         startStatus, pollVars, navVars, failed, trackerVars, loginVars, clientVars>>

\* the user dismisses the alert; handleUpload returns
dismissAlert ==
  /\ alertOpen
  /\ alertOpen' = FALSE
  /\ UNCHANGED <<homeVars, edits, runVars, pollVars, navVars, failed, trackerVars, presetTrail, loginVars, clientVars>>
  /\ emptiedBy' = Observed("none")

\* the generate-upload-url request of slot s settles; a resolved body is
\* followed at once by the PUT to resp.signed_url
PresignOutcomes == {"body", "errorBody", "reject"}

presignRejected_retry == [slotPc |-> "presign", reissued |-> 1]

\* `await getPresignedUrl(...)` throws inside the per-slot callback, which has
\* no try/catch: its promise rejects and nothing is requested again
presignRejected == [slotPc |-> "rejected", reissued |-> 0]

PresignResponse(s, out) ==
  /\ slotPc[s] = "presign"
  /\ out \in PresignOutcomes
  /\ IF out = "reject"
     THEN /\ slotPc' = [slotPc EXCEPT ![s] = presignRejected.slotPc]
          /\ presigns' = [presigns EXCEPT ![s] = presigns[s] + presignRejected.reissued]
          /\ SettleSlot(slotPc', results)
          /\ UNCHANGED <<slotResp, puts>>
     ELSE /\ slotResp' = [slotResp EXCEPT ![s] = IF out = "body" THEN PresignBody(s) ELSE ErrorBody]
          /\ slotPc' = [slotPc EXCEPT ![s] = "put"]
          /\ puts' = [puts EXCEPT ![s] = puts[s] + 1]
          /\ UNCHANGED <<huPc, uploading, showAnalyzing, startReq, startCalls, presigns>>
  /\ failed' = (failed \/ out # "body")
  /\ UNCHANGED <<weights, preset, apiProgress, selectedFiles, alertOpen, edits, run, results,
                 putStatus, startStatus, pollVars, navVars, trackerVars, presetTrail, loginVars, clientVars>>
  /\ emptiedBy' = Observed("none")

\* the PUT of slot s settles: uploaded.ok, a non-success status, or a
\* network error
PutOutcomes == {"ok", "notOk", "reject"}

PutResult_ignoreOk(resp, out) == resp.storage_path

\* if (uploaded.ok) return resp.storage_path; else return null;
PutResult(resp, out) == IF out = "ok" THEN resp.storage_path ELSE Null

PutSettles_throwOnNotOk(out) == IF out = "ok" THEN "resolved" ELSE "rejected"

\* the per-slot promise rejects when fetch rejects and resolves otherwise
PutSettles(out) == IF out = "reject" THEN "rejected" ELSE "resolved"

PutResponse(s, out) ==
  /\ slotPc[s] = "put"
  /\ out \in PutOutcomes
  /\ slotPc' = [slotPc EXCEPT ![s] = PutSettles(out)]
  /\ results' = [results EXCEPT ![s] = IF out = "reject" THEN Null ELSE PutResult(slotResp[s], out)]
  /\ putStatus' = [putStatus EXCEPT ![s] = out]
  /\ SettleSlot(slotPc', results')
  /\ failed' = (failed \/ out # "ok")
  /\ UNCHANGED <<weights, preset, apiProgress, selectedFiles, alertOpen, edits, run, slotResp,
                 presigns, puts, startStatus, pollVars, navVars, trackerVars, presetTrail, loginVars, clientVars>>
  /\ emptiedBy' = Observed("none")

\* the startAnalysis request settles
StartOutcomes == {"body", "errorBody", "reject"}

\* analysisDetails.analysis_id of the resolved value
AnalysisIdOf(out) == IF out = "body" THEN JobId ELSE Undefined

pollStarts_always(out) == TRUE

\* pollAnalysisStatus is called behind `await startAnalysis(...)`: only when
\* that promise resolved
pollStarts(out) == out # "reject"

StartResponse(out) ==
  /\ huPc = "awaitStart"
  /\ out \in StartOutcomes
  /\ IF pollStarts(out)
     THEN /\ huPc' = "awaitPoll"
          /\ pollArg' = AnalysisIdOf(out)
          /\ pollPc' = "fetch"
          /\ pollsInFlight' = pollsInFlight + 1
     ELSE /\ huPc' = "rejected"
          /\ UNCHANGED <<pollPc, pollArg, pollsInFlight>>
  /\ startStatus' = out
  /\ failed' = (failed \/ out # "body")
  /\ UNCHANGED <<homeVars, alertOpen, edits, run, slotPc, slotResp, results, presigns, puts,
                 putStatus, startReq, startCalls, lastResp, finalAnalysis, pollRejected,
                 navVars, trackerVars, presetTrail, loginVars, clientVars>>
  /\ emptiedBy' = Observed("none")

\* --------------------------------------------------------- pollAnalysisStatus
\* bodies the status request can resolve to: a job status, the completed job
\* with its result, or an error body without a progress field
StatusBodies(id) ==
  IF id = Undefined
  THEN {NoResp}
  ELSE {[progress |-> p, payload |-> Undefined] : p \in (ProgressValues \ {100}) \cup {UndefinedProgress}}
       \cup {[progress |-> 100, payload |-> d] : d \in Payloads}

PollReturns_early(resp) == resp.progress >= 40

\* if (resp.progress === 100) return resp;
PollReturns(resp) == resp.progress = 100

navigateToDashboard_forgotten ==
  /\ UNCHANGED <<route, locationState, navCount>>
  /\ huPc' = "done"

\* handleUpload behind `await pollAnalysisStatus(analysis_id)`
navigateToDashboard ==
  /\ route' = "dashboard"
  /\ locationState' = <<>>
  /\ navCount' = navCount + 1
  /\ huPc' = "done"

PollResponse(resp) ==
  /\ pollPc = "fetch"
  /\ resp \in StatusBodies(pollArg)
  /\ lastResp' = resp
  /\ pollsInFlight' = pollsInFlight - 1
  /\ apiProgress' = resp.progress
  /\ IF PollReturns(resp)
     THEN /\ finalAnalysis' = resp
          /\ pollPc' = "returned"
          /\ navigateToDashboard
     ELSE /\ pollPc' = "sleep"
          /\ UNCHANGED <<finalAnalysis, huPc, navVars>>
  /\ failed' = (failed \/ resp.progress = UndefinedProgress)
  /\ UNCHANGED <<weights, preset, selectedFiles, showAnalyzing, uploading, alertOpen, edits,
                 run, slotPc, slotResp, results, presigns, puts, putStatus, startReq,
                 startCalls, startStatus, pollArg, pollRejected, trackerVars, presetTrail, loginVars, clientVars>>
  /\ emptiedBy' = Observed("none")

\* where a rejected status request leaves the loop and its caller
PollCatch_retry == [pollPc |-> "sleep", huPc |-> "awaitPoll"]

\* catch (err) { console.error(...); throw err; }
PollCatch == [pollPc |-> "threw", huPc |-> "rejected"]

\* the status request rejects
PollReject ==
  /\ pollPc = "fetch"
  /\ pollPc' = PollCatch.pollPc
  /\ huPc' = PollCatch.huPc
  /\ pollRejected' = TRUE
  /\ pollsInFlight' = pollsInFlight - 1
  /\ failed' = TRUE
  /\ UNCHANGED <<homeVars, alertOpen, edits, run, slotPc, slotResp, results, presigns, puts,
                 putStatus, startReq, startCalls, startStatus, pollArg, lastResp,
                 finalAnalysis, navVars, trackerVars, presetTrail, loginVars, clientVars>>
  /\ emptiedBy' = Observed("none")

\* setTimeout(resolve, interval) fires; the loop fetches again
PollTimer ==
  /\ pollPc = "sleep"
  /\ pollPc' = "fetch"
  /\ pollsInFlight' = pollsInFlight + 1
  /\ UNCHANGED <<homeVars, alertOpen, edits, runVars, pollArg, lastResp, finalAnalysis,
                 pollRejected, navVars, failed, trackerVars, presetTrail, loginVars, clientVars>>
  /\ emptiedBy' = Observed("none")

\* ------------------------------------------------------------------ Dashboard
\* const { finalAnalysis, analysisId } = location.state || {}
DashboardProps ==
  IF locationState = <<>>
  THEN [finalAnalysis |-> NoResp, analysisId |-> Undefined]
  ELSE locationState[1]

\* ---------------------------------------------------------------- specification
Next ==
  \/ \E key \in SlotSample, newFiles \in Picks : handleFiles(key, newFiles)
  \/ \E key \in SlotKeys, index \in 0..(maxFiles - 1) : removeFile(key, index)
  \/ \E factor \in SliderFactors, value \in SliderValues : handleChange(factor, value)
  \/ \E presetName \in PresetSample : applyPreset(presetName)
  \/ handleUpload
  \/ dismissAlert
  \/ \E s \in SlotKeys, out \in PresignOutcomes : PresignResponse(s, out)
  \/ \E s \in SlotKeys, out \in PutOutcomes : PutResponse(s, out)
  \/ \E out \in StartOutcomes : StartResponse(out)
  \/ \E resp \in StatusBodies(pollArg) : PollResponse(resp)
  \/ PollReject
  \/ PollTimer

Spec == Init /\ [][Next]_vars

SpecSlots == InitSlots /\ [][Next]_vars

\* ------------------------------------------------------------ ProgressTracker
\* Time is counted in units of 1000 ms. A loop is one chain of animate()
\* callbacks: the start, end and startTime captured by an effect run, with
\* elapsed = Date.now() - startTime.
duration(end) == IF end = 100 THEN ShortDuration ELSE LongDuration

Min(a, b) == IF a < b THEN a ELSE b

\* value = start + (end - start) * t with t = Math.min(elapsed / duration, 1),
\* in 1/Scale of a percent
AnimValue(l) ==
  l.start + (((l.end * Scale) - l.start) * Min(l.elapsed, duration(l.end))) \div duration(l.end)

Finished(l) == l.elapsed >= duration(l.end)

RECURSIVE StillRunning(_)
StillRunning(ls) ==
  IF ls = <<>> THEN <<>>
  ELSE (IF Finished(Head(ls)) THEN <<>> ELSE <<Head(ls)>>) \o StillRunning(Tail(ls))

RECURSIVE Completions(_)
Completions(ls) ==
  IF ls = <<>> THEN 0
  ELSE (IF Finished(Head(ls)) /\ Head(ls).end = 100 THEN 1 ELSE 0) + Completions(Tail(ls))

\* the effect on [apiProgress]: a new loop from the displayed value to the prop
\* (its first animate() call writes the start value), unless the prop is undefined
AnimateEffect(prop) ==
  /\ target' = prop
  /\ IF prop = target \/ prop = UndefinedProgress
     THEN UNCHANGED <<progress, loops>>
     ELSE /\ loops' = Append(loops, [start |-> progress, end |-> prop, elapsed |-> 0])
          /\ progress' = AnimValue([start |-> progress, end |-> prop, elapsed |-> 0])

\* ProgressTracker as HomePage mounts it and keeps it mounted: one file was
\* uploaded, startAnalysis was acknowledged and the first status request is in
\* flight; apiProgress is still 0 and the first effect run has started the loop
\* toward 5
TrackedFiles == [EmptyFiles EXCEPT !["pitch_deck"] = <<FileList[1]>>]

InitTracker ==
  /\ route = "home"
  /\ locationState = <<>>
  /\ weights = PRESETS[Custom]
  /\ preset = Custom
  /\ apiProgress = 0
  /\ selectedFiles = TrackedFiles
  /\ showAnalyzing = TRUE
  /\ uploading = FALSE
  /\ alertOpen = FALSE
  /\ edits = 0
  /\ huPc = "awaitPoll"
  /\ run = [weights |-> PRESETS[Custom], preset |-> Custom, selectedFiles |-> TrackedFiles]
  /\ slotPc = [s \in SlotKeys |-> "resolved"]
  /\ slotResp = [s \in SlotKeys |-> IF s = "pitch_deck" THEN PresignBody(s) ELSE ErrorBody]
  /\ results = [s \in SlotKeys |-> IF s = "pitch_deck" THEN PresignBody(s).storage_path ELSE Null]
  /\ presigns = [s \in SlotKeys |-> IF s = "pitch_deck" THEN 1 ELSE 0]
  /\ puts = [s \in SlotKeys |-> IF s = "pitch_deck" THEN 1 ELSE 0]
  /\ putStatus = [s \in SlotKeys |-> IF s = "pitch_deck" THEN "ok" ELSE "none"]
  /\ startReq = <<[storage_paths |-> <<PresignBody("pitch_deck").storage_path>>,
                   weighting_config |-> [profile_name |-> Custom,
                                         weights |-> normalizedWeights(PRESETS[Custom])]]>>
  /\ startCalls = 1
  /\ startStatus = "body"
  /\ pollRejected = FALSE
  /\ pollPc = "fetch"
  /\ pollArg = JobId
  /\ lastResp = NoResp
  /\ finalAnalysis = NoResp
  /\ navCount = 0
  /\ failed = FALSE
  /\ progress = 0
  /\ target = InitialTarget
  /\ loops = <<[start |-> 0, end |-> InitialTarget, elapsed |-> 0]>>
  /\ targets = 0
  /\ sleepLeft = 0
  /\ onCompleteCount = 0
  /\ presetTrail = <<>>
  /\ pollsInFlight = 1
  /\ form = [email |-> "", password |-> ""]
  /\ errors = [email |-> "", password |-> ""]
  /\ loginInFlight = 0
  /\ loginCalls = 0
  /\ localStorage = Null
  /\ toasts = <<>>
  /\ loginNavs = 0
  /\ loginResp = NoLogin
  /\ emptiedBy = "unobserved"
  /\ clientCall = "none"
  /\ clientLog = <<>>

\* the parent receives a status response and calls setApiProgress; the
\* re-render hands adjustedApiProgress to the tracker and its effect runs
setApiProgress(p) ==
  /\ targets < MaxTargets
  /\ sleepLeft = 0
  /\ apiProgress # 100
  /\ apiProgress' = p
  /\ AnimateEffect(adjustedApiProgress')
  /\ targets' = targets + 1
  /\ sleepLeft' = interval
  /\ UNCHANGED <<weights, preset, selectedFiles, showAnalyzing, uploading, alertOpen, edits,
                 runVars, pollVars, navVars, failed, onCompleteCount, presetTrail, loginVars, clientVars, emptiedBy>>

\* 1000 ms pass
Tick ==
  /\ \/ sleepLeft > 0
     \/ \E i \in 1..Len(loops) : ~Finished(loops[i])
  /\ sleepLeft' = IF sleepLeft > 0 THEN sleepLeft - 1 ELSE 0
  /\ loops' = [i \in 1..Len(loops) |->
                 [loops[i] EXCEPT !.elapsed = Min(loops[i].elapsed + 1, duration(loops[i].end))]]
  /\ UNCHANGED <<homeVars, alertOpen, edits, runVars, pollVars, navVars, failed,
                 progress, target, targets, onCompleteCount, presetTrail, loginVars, clientVars, emptiedBy>>

\* one animation frame: every scheduled animate() runs, oldest loop first; the
\* last setProgress of the frame is the one rendered
Frame ==
  /\ loops # <<>>
  /\ progress' = AnimValue(loops[Len(loops)])
  /\ onCompleteCount' = onCompleteCount + Completions(loops)
  /\ loops' = StillRunning(loops)
  /\ UNCHANGED <<homeVars, alertOpen, edits, runVars, pollVars, navVars, failed,
                 target, targets, sleepLeft, presetTrail, loginVars, clientVars, emptiedBy>>

\* the pipeline stages shown by ProgressTracker
processingSteps == <<"upload", "ai", "metrics", "risks", "complete">>

stepIndex_unclamped == progress \div ((100 \div Len(processingSteps)) * Scale)

\* Math.min(Math.floor(progress / (100 / processingSteps.length)),
\*          processingSteps.length - 1), an index counted from 0
stepIndex ==
  Min(progress \div ((100 \div Len(processingSteps)) * Scale), Len(processingSteps) - 1)

\* processingSteps[stepIndex]
currentStepData == processingSteps[stepIndex + 1]

\* setProgress(value): the displayed values a frame can write, from 0 to 100 in
\* steps of 1/DisplayGrain of a percent
DisplayValues == {(q * Scale) \div DisplayGrain : q \in 0..(100 * DisplayGrain)}

setProgress(value) ==
  /\ showAnalyzing
  /\ progress' = value
  /\ UNCHANGED <<homeVars, alertOpen, edits, runVars, pollVars, navVars, failed,
                 target, loops, targets, sleepLeft, onCompleteCount, presetTrail, loginVars, clientVars, emptiedBy>>

\* ProgressTracker rendered for every displayed value
SpecSteps == InitTracker /\ [][\E value \in DisplayValues : setProgress(value)]_vars

TrackerNext ==
  \/ \E p \in TrackerValues \cup {UndefinedProgress} : setApiProgress(p)
  \/ Tick
  \/ Frame

SpecTracker == InitTracker /\ [][TrackerNext]_vars

\* ------------------------------------------------------------------ LoginPage
FieldNames == {"email", "password"}
FieldValues == {"", " ", "x"}     \* empty, blank, filled
Tokens == {"tokenA", "tokenB"}
Messages == {"Invalid credentials"}

\* String.prototype.trim on the sampled values
Trim(str) == IF str = " " THEN "" ELSE str

\* newErrors of validate(), with "" for a field that has no entry
newErrors(f) ==
  [email |-> IF Trim(f.email) = "" THEN "Email is required" ELSE "",
   password |-> IF Trim(f.password) = "" THEN "Password is required" ELSE ""]

\* Object.keys(newErrors).length === 0
validate(f) == \A name \in FieldNames : newErrors(f)[name] = ""

\* what a loginUser request can settle to: the 2xx body, a non-2xx body with
\* success false and a message, a non-2xx body without these fields, or a
\* rejection when there is no response body
LoginBodies ==
  {[settled |-> "resolved", success |-> TRUE, message |-> Undefined, token |-> t] : t \in Tokens}
  \cup {[settled |-> "resolved", success |-> FALSE, message |-> m, token |-> Undefined] :
          m \in Messages \cup {Undefined}}
  \cup {[settled |-> "rejected", success |-> FALSE, message |-> Undefined, token |-> Undefined]}

workflowVars == <<homeVars, alertOpen, edits, runVars, pollVars, locationState, navCount, failed,
                 trackerVars, presetTrail, emptiedBy, clientVars>>

\* the application opened on the login route
InitLogin == route = "login" /\ emptiedBy = "unobserved" /\ InitState

\* LoginPage.handleChange
loginHandleChange(name, value) ==
  /\ route = "login"
  /\ form' = [form EXCEPT ![name] = value]
  /\ errors' = [errors EXCEPT ![name] = ""]
  /\ UNCHANGED <<workflowVars, route, loginInFlight, loginCalls, localStorage, toasts,
                 loginNavs, loginResp>>

\* click on Sign In: validate(), then the loginUser request
handleLogin ==
  /\ route = "login"
  /\ loginCalls < MaxLogins
  /\ errors' = newErrors(form)
  /\ IF validate(form)
     THEN /\ loginCalls' = loginCalls + 1
          /\ loginInFlight' = loginInFlight + 1
     ELSE UNCHANGED <<loginCalls, loginInFlight>>
  /\ UNCHANGED <<workflowVars, route, form, localStorage, toasts, loginNavs, loginResp>>

loginSucceeded_truthyBody(resp) == resp.settled = "resolved"

\* if (success)
loginSucceeded(resp) == resp.settled = "resolved" /\ resp.success

\* handleLogin behind `await loginUser(body)`
LoginResponse(resp) ==
  /\ loginInFlight > 0
  /\ loginInFlight' = loginInFlight - 1
  /\ loginResp' = resp
  /\ IF loginSucceeded(resp)
     THEN /\ localStorage' = resp.token
          /\ route' = "home"
          /\ loginNavs' = loginNavs + 1
          /\ UNCHANGED toasts
     ELSE /\ toasts' = IF resp.settled = "resolved" THEN Append(toasts, resp.message) ELSE toasts
          /\ UNCHANGED <<localStorage, route, loginNavs>>
  /\ UNCHANGED <<workflowVars, form, errors, loginCalls>>

LoginNext ==
  \/ \E name \in FieldNames, value \in FieldValues : loginHandleChange(name, value)
  \/ handleLogin
  \/ \E resp \in LoginBodies : LoginResponse(resp)

SpecLogin == InitLogin /\ [][LoginNext]_vars

\* ---------------------------------------------------------------- API clients
\* the functions of venturevalService; each posts or gets through the client of
\* its service and hands the settled value on unchanged (.then((resp) => resp))
ApiFunctions == {"getPresignedUrl", "startAnalysis", "getAnalysisData", "loginUser"}

ServiceOf(fn) ==
  CASE fn = "getPresignedUrl" -> "DOCUMENTS"
    [] fn \in {"startAnalysis", "getAnalysisData"} -> "ANALYSIS"
    [] fn = "loginUser" -> "USER"

EmptyData == ""           \* a response without content: axios gives data ""
NoData == Undefined       \* no data at all

\* what axios hands to the interceptor: a 2xx response, a response with another
\* status (with a body, with an empty one, without data), or an error without a
\* response (network failure, timeout, aborted request)
HttpResponses ==
  {[status |-> "2xx", data |-> b] : b \in {"body", EmptyData}}
  \cup {[status |-> "non2xx", data |-> b] : b \in {"errorBody", EmptyData, NoData}}
  \cup {[status |-> "none", data |-> NoData]}

\* JavaScript truthiness of the sampled data values
Truthy(data) == data \notin {EmptyData, NoData}

interceptor_rejectNon2xx(r) ==
  IF r.status = "2xx"
  THEN [settled |-> "resolved", value |-> r.data]
  ELSE [settled |-> "rejected", value |-> NoData]

\* instance.interceptors.response.use(onFulfilled, onRejected)
interceptor(r) ==
  IF r.status = "2xx"
  THEN [settled |-> "resolved", value |-> r.data]
  ELSE IF r.status # "none" /\ Truthy(r.data)
       THEN [settled |-> "resolved", value |-> r.data]
       ELSE [settled |-> "rejected", value |-> NoData]

\* how the workflow sees the settlement of a request
OutcomeOf(r) ==
  CASE interceptor(r).settled = "rejected" -> "reject"
    [] interceptor(r).settled = "resolved" /\ r.status = "2xx" -> "body"
    [] OTHER -> "errorBody"

otherVars == <<homeVars, alertOpen, edits, runVars, pollVars, navVars, failed, trackerVars,
              presetTrail, loginVars, emptiedBy>>

\* a caller invokes a service function
callApi(fn) ==
  /\ clientCall = "none"
  /\ Len(clientLog) < MaxClientCalls
  /\ clientCall' = fn
  /\ UNCHANGED <<otherVars, clientLog>>

\* the request settles through the interceptor of its client
clientResponse(r) ==
  /\ clientCall # "none"
  /\ clientLog' = Append(clientLog, [fn |-> clientCall, service |-> ServiceOf(clientCall),
                                     response |-> r, result |-> interceptor(r)])
  /\ clientCall' = "none"
  /\ UNCHANGED otherVars

ClientNext ==
  \/ \E fn \in ApiFunctions : callApi(fn)
  \/ \E r \in HttpResponses : clientResponse(r)

SpecClient == Init /\ [][ClientNext]_vars

\* ====================================================================== claims
WeightSum(w) ==
  w["Growth"] + w["Market"] + w["Team"] + w["Product"] + w["Financials"] + w["Competition"]

NonEmptySlots(sf) == {s \in SlotKeys : sf[s] # <<>>}

SubmissionStarts == ~uploading /\ uploading'
SubmissionBlocked == ~alertOpen /\ alertOpen'
RequestIssued ==
  \/ \E s \in SlotKeys : presigns'[s] > presigns[s] \/ puts'[s] > puts[s]
  \/ startCalls' > startCalls

\* C1: a click on the submit button goes on to upload (sets uploading and
\* issues the presign requests) only if the six weights sum to exactly 100, and
\* is blocked by the alert only if they do not; every request ever issued
\* belongs to a run whose weights sum to 100.
C1_SubmitIffTotal100 ==
  /\ [][/\ SubmissionStarts =>
             /\ WeightSum(weights) = 100
             /\ \A s \in NonEmptySlots(selectedFiles) : presigns'[s] = presigns[s] + 1
        /\ SubmissionBlocked =>
             /\ WeightSum(weights) # 100
             /\ ~RequestIssued /\ ~uploading'
        /\ RequestIssued => WeightSum(run'.weights) = 100]_vars
  /\ [](uploading => WeightSum(run.weights) = 100)

C1_Witness == alertOpen /\ WeightSum(weights) = 99 /\ ~uploading /\ startCalls = 0

\* the storage path the presign response of slot s carried
PathOf(s) == slotResp[s].storage_path

RECURSIVE PathsOf(_, _)
PathsOf(S, i) ==
  IF i > Len(Slots) THEN <<>>
  ELSE (IF Slots[i] \in S THEN <<PathOf(Slots[i])>> ELSE <<>>) \o PathsOf(S, i + 1)

PutOkSlots == {s \in NonEmptySlots(run.selectedFiles) : putStatus[s] = "ok"}
UploadedSlots == {s \in PutOkSlots : PathOf(s) # Undefined}

\* C2 (as stated): the storage_paths sent to startAnalysis are exactly the
\* storage paths of the non-empty slots whose PUT returned a success status,
\* one entry per such slot.
C2_Original ==
  startReq # <<>> =>
    /\ Len(startReq[1].storage_paths) = Cardinality(PutOkSlots)
    /\ startReq[1].storage_paths = PathsOf(PutOkSlots, 1)

\* C2 (amended): the storage_paths sent to startAnalysis are exactly the
\* storage paths of the non-empty slots whose presign response carried a
\* storage path and whose PUT returned a success status, one entry per such
\* slot, in slot order.
C2_PathsOfUploadedSlots ==
  startReq # <<>> =>
    /\ Len(startReq[1].storage_paths) = Cardinality(UploadedSlots)
    /\ startReq[1].storage_paths = PathsOf(UploadedSlots, 1)

C2_Witness ==
  /\ startReq # <<>>
  /\ Cardinality(NonEmptySlots(run.selectedFiles)) = 2
  /\ Cardinality(UploadedSlots) = 2
  /\ Len(startReq[1].storage_paths) = 2

InSeq(x, q) == \E i \in 1..Len(q) : q[i] = x

\* C3: a PUT that returns a non-success status leaves the other slots'
\* sequences and the awaiting handleUpload untouched; once every slot has
\* resolved startAnalysis has been called, and its storage_paths hold the paths
\* of the uploaded slots and not the path of a slot whose PUT failed.
C3_FailedPutDoesNotAbort ==
  /\ [][\A s \in SlotKeys :
          (putStatus[s] # "notOk" /\ putStatus'[s] = "notOk") =>
            /\ \A o \in SlotKeys \ {s} :
                 slotPc'[o] = slotPc[o] /\ results'[o] = results[o]
            /\ huPc # "rejected" => huPc' # "rejected"
            /\ results'[s] = Null]_vars
  /\ [](\A s \in SlotKeys :
          (putStatus[s] = "notOk" /\ \A o \in SlotKeys : slotPc[o] = "resolved") =>
            /\ startCalls = 1 /\ startReq # <<>>
            /\ ~InSeq(PathOf(s), startReq[1].storage_paths)
            /\ \A o \in UploadedSlots : InSeq(PathOf(o), startReq[1].storage_paths))

C3_Witness ==
  /\ startReq # <<>>
  /\ \E s \in SlotKeys : putStatus[s] = "notOk" /\ PathOf(s) # Undefined
  /\ Len(startReq[1].storage_paths) = 1

Settled(s) == slotPc[s] \in {"resolved", "rejected"}

\* C4 (as stated): a slot whose presign request or PUT rejects contributes no
\* reference, and once every slot has settled startAnalysis has been called with
\* the references of the slots that succeeded.
C4_RejectionDegradesSilently ==
  ((\E s \in SlotKeys : slotPc[s] = "rejected") /\ \A s \in SlotKeys : Settled(s)) =>
    /\ startCalls = 1 /\ startReq # <<>>
    /\ startReq[1].storage_paths = PathsOf(UploadedSlots, 1)
    /\ ~uploading

\* C5: pollAnalysisStatus returns exactly on a response whose progress is 100
\* and returns that response; a response with another progress puts the loop to
\* sleep, from which it only goes on to fetch again; the dashboard is not
\* reached before a response with progress 100 has been received.
C5_PollReturnsOnlyOn100 ==
  /\ [][/\ (pollPc = "fetch" /\ lastResp' # lastResp) =>
             (IF lastResp'.progress = 100
              THEN pollPc' = "returned" /\ finalAnalysis' = lastResp'
              ELSE pollPc' = "sleep" /\ apiProgress' = lastResp'.progress)
        /\ (pollPc # "returned" /\ pollPc' = "returned") =>
             (pollPc = "fetch" /\ lastResp'.progress = 100)
        /\ (pollPc = "sleep" /\ pollPc' # "sleep") => pollPc' = "fetch"]_vars
  /\ [](pollPc = "returned" => (lastResp.progress = 100 /\ finalAnalysis = lastResp))
  /\ []((route = "dashboard" \/ navCount > 0) => lastResp.progress = 100)

C5_Witness ==
  /\ pollPc = "returned" /\ finalAnalysis.progress = 100 /\ finalAnalysis.payload = "resultB"

\* -------------------------------------------------------------- fair scheduling
\* every request in flight is eventually answered (with some outcome) and a
\* running timer eventually fires
Fairness ==
  /\ \A s \in SlotKeys : WF_vars(\E out \in PresignOutcomes : PresignResponse(s, out))
  /\ \A s \in SlotKeys : WF_vars(\E out \in PutOutcomes : PutResponse(s, out))
  /\ WF_vars(\E out \in StartOutcomes : StartResponse(out))
  /\ WF_vars((\E resp \in StatusBodies(pollArg) : PollResponse(resp)) \/ PollReject)
  /\ WF_vars(PollTimer)

FairSpec == Spec /\ Fairness

\* the backend answers a status request with progress 100
StatusReports100 == \E d \in Payloads : PollResponse([progress |-> 100, payload |-> d])

\* C6: under fair scheduling, if no request of the run fails and the backend
\* does not withhold progress 100 for ever, a run started by handleUpload
\* reaches the dashboard; navigate is called at most once, and once handleUpload
\* is done no poll is issued and nothing of the run changes any more.
C6_WorkflowReachesDashboard ==
  /\ (SF_vars(StatusReports100) /\ []~failed) => (uploading ~> route = "dashboard")
  /\ [](navCount <= 1)
  /\ [](route = "dashboard" => (navCount = 1 /\ huPc = "done" /\ pollPc = "returned"))
  /\ [][huPc = "done" =>
          (huPc' = "done" /\ pollPc' = pollPc /\ navCount' = navCount /\ route' = route)]_vars

C6_Witness == route = "dashboard" /\ navCount = 1 /\ ~failed /\ WeightSum(run.weights) = 100

\* C7 (as stated): whenever the dashboard has been reached through the workflow,
\* the finalAnalysis and analysisId it reads from the navigation state are the
\* polled result and the id returned by startAnalysis.
C7_ResultHandedToDashboard ==
  route = "dashboard" =>
    /\ DashboardProps.finalAnalysis = finalAnalysis
    /\ DashboardProps.analysisId = pollArg

Abs(x) == IF x < 0 THEN 0 - x ELSE x

\* distance of a displayed value from the target the tracker animates toward
Dist(v, t) == Abs((t * Scale) - v)

RejectedAfterUploads == startStatus = "reject" \/ pollRejected

\* C9: once startAnalysis or a status request has rejected, handleUpload is
\* over with the rejection: the analyzing screen is shown and stays shown, no
\* request is issued any more (no retry, no poll) and there is no navigation.
C9_RejectionStallsAnalyzing ==
  /\ [](RejectedAfterUploads =>
          /\ huPc = "rejected" /\ showAnalyzing /\ ~uploading
          /\ route = "home" /\ navCount = 0
          /\ pollPc \in {"none", "threw"}
          /\ startCalls = 1)
  /\ [][RejectedAfterUploads =>
          /\ ~RequestIssued
          /\ pollPc' = pollPc /\ huPc' = huPc
          /\ showAnalyzing' /\ route' = route]_vars

C9_Witness == pollRejected /\ lastResp.progress = 40 /\ showAnalyzing /\ huPc = "rejected"

\* C10: the submit button is disabled whenever all four slots are empty, it is
\* enabled exactly when some slot holds a file and uploading is false, and a
\* click takes effect only while it is enabled.
C10_SubmitDisabledFlag ==
  /\ []((\A s \in SlotKeys : selectedFiles[s] = <<>>) => isDisabled)
  /\ [](~isDisabled <=> ((\E s \in SlotKeys : selectedFiles[s] # <<>>) /\ ~uploading))
  /\ [][(SubmissionStarts \/ SubmissionBlocked) =>
          ((\E s \in SlotKeys : selectedFiles[s] # <<>>) /\ ~uploading)]_vars

C10_Witness ==
  /\ uploading /\ isDisabled
  /\ \E s \in SlotKeys : selectedFiles[s] # <<>> /\ run.selectedFiles[s] = <<>>

\* C11: a click on the submit button with weights that do not sum to 100 opens
\* the alert and changes nothing else: uploading, showAnalyzing, apiProgress,
\* selectedFiles, weights and preset keep their values, no presign, PUT,
\* startAnalysis or status request is issued, and this is still so when the
\* alert has been dismissed.
C11_AbortHasNoSideEffects ==
  /\ [][SubmissionBlocked =>
          /\ WeightSum(weights) # 100
          /\ UNCHANGED <<uploading, showAnalyzing, apiProgress, selectedFiles, weights, preset>>
          /\ ~RequestIssued
          /\ UNCHANGED <<presigns, puts, startCalls, startReq, pollPc, huPc, slotPc>>]_vars
  /\ [][(alertOpen /\ ~alertOpen') =>
          /\ UNCHANGED <<uploading, showAnalyzing, apiProgress, selectedFiles, weights, preset>>
          /\ ~RequestIssued
          /\ UNCHANGED <<pollPc, huPc, slotPc>>]_vars
  /\ [](alertOpen => (~uploading /\ ~showAnalyzing /\ WeightSum(weights) # 100))

C11_Witness ==
  /\ alertOpen /\ WeightSum(weights) = 101
  /\ Cardinality(NonEmptySlots(selectedFiles)) = 2
  /\ ~uploading /\ ~showAnalyzing /\ apiProgress = 0
  /\ startCalls = 0 /\ pollPc = "none" /\ \A s \in SlotKeys : presigns[s] = 0 /\ puts[s] = 0

\* the number of pipeline stages and the width of one stage, in percent
N == Len(processingSteps)
StageWidth == 100 \div N

\* C12: for every displayed progress value from 0 to 100 the derived step index
\* is min(floor(p / (100/N)), N-1) with N = 5: it is a valid index into
\* processingSteps, below the last stage it is the stage whose range of width
\* 100/N holds p, the displayed value 42 gives index 2 and 100 gives index 4.
C12_StepIndex ==
  /\ N = 5
  /\ stepIndex \in 0..(N - 1)
  /\ (stepIndex + 1) \in DOMAIN processingSteps
  /\ stepIndex * StageWidth * Scale <= progress
  /\ stepIndex < N - 1 => progress < (stepIndex + 1) * StageWidth * Scale
  /\ progress >= (N - 1) * StageWidth * Scale => stepIndex = N - 1
  /\ progress = 42 * Scale => (stepIndex = 2 /\ currentStepData = "metrics")
  /\ progress = 100 * Scale => (stepIndex = 4 /\ currentStepData = "complete")

C12_Witness == progress = 42 * Scale /\ stepIndex = 2 /\ showAnalyzing

TrailLast == presetTrail[Len(presetTrail)]

\* C13: after applyPreset(A), applyPreset(B), applyPreset(A) in a row the weights
\* are A's fixed values and the preset is A; applying the preset that was
\* applied last once more changes neither; both hold whatever slider edits and
\* preset switches came before, because after every applyPreset the weights are
\* the table entry of the preset applied.
C13_PresetRoundTrip ==
  /\ [](presetTrail # <<>> => (preset = TrailLast /\ weights = PRESETS[TrailLast]))
  /\ [](\A A \in PresetNames, B \in PresetNames :
          /\ presetWeights(presetWeights(presetWeights(weights, A), B), A) = PRESETS[A]
          /\ presetWeights(presetWeights(weights, A), A) = presetWeights(weights, A))
  /\ []((Len(presetTrail) >= 3 /\ presetTrail[Len(presetTrail) - 2] = TrailLast) =>
          (preset = presetTrail[Len(presetTrail) - 2]
           /\ weights = PRESETS[presetTrail[Len(presetTrail) - 2]]))
  /\ [][(presetTrail # <<>> /\ presetTrail' = LastOf(Append(presetTrail, TrailLast))) =>
          (weights' = weights /\ preset' = preset)]_vars

C13_Witness ==
  /\ presetTrail = <<Custom, "Growth Equity", Custom>>
  /\ preset = Custom /\ weights = PRESETS[Custom]

\* C14: the weighting_config of every startAnalysis request maps each of the
\* six factors to its integer weight over 100, the weights being those the
\* click on submit found, names the preset selected at that click as
\* profile_name, and the integer weights behind the fractions sum to 100.
C14_NormalizedWeights ==
  /\ [](startReq # <<>> =>
          LET wc == startReq[1].weighting_config IN
            /\ DOMAIN wc.weights = Factors
            /\ \A f \in Factors : wc.weights[f] = [num |-> run.weights[f], den |-> 100]
            /\ wc.profile_name = run.preset
            /\ WeightSum([f \in Factors |-> wc.weights[f].num]) = 100)
  /\ [][SubmissionStarts => (run'.weights = weights /\ run'.preset = preset)]_vars

C14_Witness ==
  /\ startReq # <<>>
  /\ startReq[1].weighting_config.profile_name = "Growth Equity"
  /\ startReq[1].weighting_config.weights["Growth"] = [num |-> 40, den |-> 100]

\* C15: every upload slot holds at most 1 file in every state, whatever was
\* browsed, dropped or removed; a change of a slot leaves it empty or with the
\* first file of what was offered.
C15_AtMostOneFilePerSlot ==
  /\ [](\A s \in SlotKeys : Len(selectedFiles[s]) <= 1)
  /\ [][\A s \in SlotKeys :
          selectedFiles'[s] # selectedFiles[s] =>
            (selectedFiles'[s] = <<>> \/ selectedFiles'[s] = <<FileList[1]>>)]_vars

C15_Witness ==
  /\ \A s \in SlotSample : Len(selectedFiles[s]) = 1
  /\ huPc = "idle"

LoginSettles == loginInFlight' < loginInFlight

\* C16: the token is stored under venture_auth_token, and navigate("/") called,
\* only by a login response with success true, which does both; a response
\* without success adds one toast with the message of that response, stores
\* nothing, does not navigate and issues no further request.
C16_TokenOnlyOnSuccess ==
  /\ [][(localStorage' # localStorage \/ loginNavs' # loginNavs \/ route' # route) =>
          /\ LoginSettles
          /\ loginResp'.settled = "resolved" /\ loginResp'.success
          /\ localStorage' = loginResp'.token
          /\ loginNavs' = loginNavs + 1 /\ route' = "home"]_vars
  /\ [][(LoginSettles /\ loginResp'.settled = "resolved" /\ loginResp'.success) =>
          /\ localStorage' = loginResp'.token
          /\ loginNavs' = loginNavs + 1 /\ route' = "home"
          /\ toasts' = toasts]_vars
  /\ [][(LoginSettles /\ loginResp'.settled = "resolved" /\ ~loginResp'.success) =>
          /\ toasts' = Append(toasts, loginResp'.message)
          /\ UNCHANGED <<localStorage, route, loginNavs>>
          /\ loginCalls' = loginCalls /\ loginInFlight' = loginInFlight - 1]_vars
  /\ [](loginNavs = 0 => (localStorage = Null /\ route = "login"))
  /\ [](localStorage \in Tokens \cup {Null})

C16_Witness ==
  /\ toasts = <<"Invalid credentials">>
  /\ localStorage = "tokenA" /\ route = "home" /\ loginNavs = 1 /\ loginCalls = 2

\* C17: startAnalysis is requested in the step in which the last per-slot
\* sequence settles and not before: when the request goes out and for as long
\* as it is in flight every slot has resolved, every presign request and PUT of
\* the run has been answered, and a run issues the request at most once.
C17_StartAfterAllUploads ==
  /\ [][startCalls' > startCalls =>
          /\ \A s \in SlotKeys : slotPc'[s] = "resolved"
          /\ \A s \in SlotKeys : puts'[s] = 1 => putStatus'[s] \in {"ok", "notOk"}
          /\ \A s \in NonEmptySlots(run.selectedFiles) : presigns[s] = 1 /\ puts'[s] = 1]_vars
  /\ []((startReq # <<>> \/ huPc = "awaitStart") =>
          /\ \A s \in SlotKeys : slotPc[s] = "resolved"
          /\ \A s \in SlotKeys : puts[s] = 1 => putStatus[s] \in {"ok", "notOk"})
  /\ []((\E s \in SlotKeys : slotPc[s] \in {"presign", "put"}) => startCalls = 0)
  /\ [](startCalls <= 1)

C17_Witness ==
  /\ huPc = "awaitStart" /\ startCalls = 1
  /\ Cardinality(NonEmptySlots(run.selectedFiles)) = 3
  /\ \E s \in SlotKeys : putStatus[s] = "notOk"
  /\ \E s \in SlotKeys : putStatus[s] = "ok"

\* C18: at most one status request is in flight in every state; a request is
\* issued only when none is in flight, either by the timer that follows the
\* previous response or, the first one, by the response that acknowledges
\* startAnalysis; a response never leaves a request in flight.
C18_PollsSequential ==
  /\ [](pollsInFlight \in {0, 1})
  /\ [](pollsInFlight = 1 <=> pollPc = "fetch")
  /\ [](pollsInFlight > 0 => (startStatus \in {"body", "errorBody"} /\ startCalls = 1))
  /\ [][pollsInFlight' > pollsInFlight =>
          /\ pollsInFlight = 0
          /\ \/ pollPc = "sleep" /\ lastResp.progress # 100
             \/ huPc = "awaitStart" /\ startStatus = "none"
                  /\ startStatus' \in {"body", "errorBody"}]_vars
  /\ [][pollsInFlight' < pollsInFlight =>
          (pollsInFlight' = 0 /\ pollPc' \in {"sleep", "returned", "threw"})]_vars

C18_Witness ==
  /\ pollsInFlight = 1 /\ pollPc = "fetch"
  /\ lastResp.progress = 40 /\ startStatus = "body"

\* C19 (as stated): at every moment at most one animation loop of
\* ProgressTracker is scheduled to write the displayed progress.
C19_SingleWriter == Len(loops) <= 1

\* the poll loop has just received a response
Polled == pollPc \in {"sleep", "returned"}

PollActive == pollPc \in {"fetch", "sleep"}

SlotFailed(s) == slotPc[s] = "rejected" \/ putStatus[s] \in {"notOk", "reject"}

\* C21: in one run each non-empty slot causes at most one presign request and
\* at most one PUT and an empty slot none, startAnalysis is called at most
\* once, and after a request has failed (a slot's presign or PUT, startAnalysis,
\* a status request) that request is not issued again.
C21_NoRetry ==
  /\ [](\A s \in SlotKeys :
          /\ presigns[s] <= 1 /\ puts[s] <= 1
          /\ run.selectedFiles[s] = <<>> => (presigns[s] = 0 /\ puts[s] = 0))
  /\ [](startCalls <= 1)
  /\ [][\A s \in SlotKeys :
          SlotFailed(s) => (presigns'[s] = presigns[s] /\ puts'[s] = puts[s])]_vars
  /\ [][startStatus # "none" => startCalls' = startCalls]_vars
  /\ [][pollRejected => pollsInFlight' = pollsInFlight]_vars

C21_Witness ==
  /\ startStatus = "reject" /\ startCalls = 1
  /\ \E s \in SlotKeys : putStatus[s] = "notOk" /\ presigns[s] = 1 /\ puts[s] = 1
  /\ \E s \in SlotKeys : putStatus[s] = "ok"

\* the response carried a body
HasBody(r) == r.status # "none" /\ r.data \notin {EmptyData, NoData}

\* C22: for every call through an API client, a 2xx response resolves to its
\* data, a non-2xx response that carries a body resolves to that body, and the
\* call rejects exactly when there is no response body to a non-2xx outcome (no
\* response at all, or a response without content); the workflow's requests
\* settle in just these three ways.
C22_WrapperNormalizes ==
  /\ \A i \in 1..Len(clientLog) :
       LET e == clientLog[i] IN
         /\ e.response.status = "2xx" =>
              (e.result.settled = "resolved" /\ e.result.value = e.response.data)
         /\ (e.response.status = "non2xx" /\ HasBody(e.response)) =>
              (e.result.settled = "resolved" /\ e.result.value = e.response.data)
         /\ e.result.settled = "rejected" <=>
              (e.response.status # "2xx" /\ ~HasBody(e.response))
  /\ {OutcomeOf(r) : r \in HttpResponses} = {"body", "errorBody", "reject"}
  /\ PresignOutcomes = {OutcomeOf(r) : r \in HttpResponses}
  /\ StartOutcomes = {OutcomeOf(r) : r \in HttpResponses}

C22_Witness ==
  /\ Len(clientLog) = 2
  /\ clientLog[1].fn = "startAnalysis" /\ clientLog[1].response.status = "non2xx"
  /\ clientLog[1].result = [settled |-> "resolved", value |-> "errorBody"]
  /\ clientLog[2].fn = "getAnalysisData" /\ clientLog[2].response.status = "none"
  /\ clientLog[2].result.settled = "rejected"

\* C23 (as stated): a slot that holds a file becomes empty only by removeFile
\* on that slot: a browse or drop event never empties it and no step of
\* handleUpload does.
C23_ClearedOnlyByRemove ==
  [][\A s \in SlotKeys :
       (selectedFiles[s] # <<>> /\ selectedFiles'[s] = <<>>) => emptiedBy' = "removeFile"]_vars

\* C24 (as stated): every status request carries the job identifier of the
\* startAnalysis response; the poll loop is never entered with an undefined
\* identifier.
C24_PollHasJobId ==
  /\ [](pollPc # "none" => pollArg = JobId)
  /\ [][(pollPc = "none" /\ pollPc' # "none") => startStatus' = "body"]_vars

\* C25 (as stated): under fair scheduling a run that has set uploading sets it
\* back to false, whatever the outcome of the per-slot uploads.
C25_UploadingEventuallyFalse == uploading ~> ~uploading

\* C26: uploading and showAnalyzing are never both true, and showAnalyzing,
\* once true, stays true.
C26_FlagsExclusive ==
  /\ [](~(uploading /\ showAnalyzing))
  /\ [][showAnalyzing => showAnalyzing']_vars

C26_Witness ==
  /\ showAnalyzing /\ ~uploading /\ huPc = "rejected"
  /\ startStatus = "reject" /\ run.selectedFiles # selectedFiles

PollLoopStarts == pollPc = "none" /\ pollPc' # "none"

\* C28: handleUpload starts a run only when no run has been started in the
\* instance (uploading false, form shown, nothing requested yet); a started
\* run is never followed by another, startAnalysis is called at most once, the
\* poll loop is entered at most once and at most one status request is in
\* flight.
C28_SingleWorkflow ==
  /\ [][/\ SubmissionStarts =>
             /\ huPc = "idle" /\ ~uploading /\ ~showAnalyzing
             /\ startCalls = 0 /\ pollPc = "none"
             /\ \A s \in SlotKeys : presigns[s] = 0 /\ puts[s] = 0
        /\ huPc # "idle" => huPc' # "idle"
        /\ pollPc # "none" => pollPc' # "none"
        /\ PollLoopStarts => (startCalls = 1 /\ pollsInFlight = 0)
        /\ startCalls' \in {startCalls, startCalls + 1}]_vars
  /\ [](startCalls <= 1 /\ pollsInFlight <= 1)
  /\ []((uploading \/ showAnalyzing) => (huPc # "idle" /\ ~ENABLED handleUpload))

C28_Witness ==
  /\ showAnalyzing /\ startCalls = 1 /\ pollPc = "sleep" /\ edits = 1
  /\ \E s \in SlotKeys : selectedFiles[s] # <<>>

\* C29: whenever the selected preset is not the custom one the weights are
\* that preset's table entry and sum to 100, a slider changes nothing then, and
\* every weight is an integer in 0..100 in every state.
C29_PresetFixesWeights ==
  /\ [](preset # Custom => (weights = PRESETS[preset] /\ WeightSum(weights) = 100))
  /\ [](\A f \in DOMAIN weights : weights[f] \in 0..100)
  /\ [][(preset # Custom /\ preset' = preset) => weights' = weights]_vars

C29_Witness ==
  /\ preset = "Growth Equity" /\ weights = PRESETS["Growth Equity"]
  /\ presetTrail = <<"Early-Stage VC", Custom, "Growth Equity">>

====
